---- MODULE Spec2Model ----
(***************************************************************************)
(* Model of src/src/App.tsx: the mount effect of the App component, which  *)
(* builds a three.js scene, starts two asynchronous GLTF loads (terrain    *)
(* and airplane), flies the airplane along a closed Catmull-Rom curve in a *)
(* requestAnimationFrame loop, grows a dashed trail behind it, handles     *)
(* window resizes and returns a cleanup function.                          *)
(*                                                                         *)
(* Numbers.  JavaScript numbers are IEEE-754 doubles.  The progress value  *)
(* t is modelled bit-exactly: a double in [0, 2) whose unit in the last    *)
(* place is at least 2^-63 is the integer N = value * 2^63, kept as three  *)
(* limbs <<hi, mid, lo>> with N = hi*2^60 + mid*2^30 + lo.  World          *)
(* coordinates are fixed-point integers in units of 2^-20 (finer than the  *)
(* single-precision spacing of every coordinate of magnitude >= 16, so     *)
(* that the Float32Array store of the trail buffer is a real rounding).    *)
(***************************************************************************)
EXTENDS Integers, Sequences, FiniteSets, TLC

(***************************************************************************)
(* Arithmetic helpers                                                      *)
(***************************************************************************)
Limb == 2^30

Frac == 2^20

Abs(x) == IF x < 0 THEN -x ELSE x

\* number of binary digits of n >= 0
RECURSIVE BitLen(_)
BitLen(n) == IF n = 0 THEN 0 ELSE 1 + BitLen(n \div 2)

\* floor(a * b / 2^k) for 0 <= b <= 2^20 and a small enough that a * 2^10
\* and the result stay within 32-bit integers
MulShift(a, b, k) ==
    LET bh == b \div 1024
        bl == b % 1024
    IN  IF k >= 10 THEN (a * bh + ((a * bl) \div 1024)) \div (2^(k - 10))
        ELSE a * bh * 2^(10 - k) + ((a * bl) \div (2^k))

\* round(n / d) for d > 0
DivRound(n, d) == (2 * n + d) \div (2 * d)

\* floor(sqrt(n)) by Newton's iteration from above
RECURSIVE SqrtIter(_, _)
SqrtIter(n, x) ==
    LET y == (x + n \div x) \div 2
    IN  IF y >= x THEN x ELSE SqrtIter(n, y)

ISqrt(n) == IF n < 2 THEN n ELSE SqrtIter(n, 2^((BitLen(n) + 1) \div 2))

(***************************************************************************)
(* Doubles in [0, 2) as limbs                                              *)
(***************************************************************************)
\* carry the limbs of a sum back into range
Normalize(n) ==
    LET lo  == n[3] % Limb
        m   == n[2] + n[3] \div Limb
        mid == m % Limb
        hi  == n[1] + m \div Limb
    IN  <<hi, mid, lo>>

\* number of significant bits of a limb number
Bits(n) == IF n[1] > 0 THEN 60 + BitLen(n[1])
           ELSE IF n[2] > 0 THEN 30 + BitLen(n[2])
           ELSE BitLen(n[3])

\* round-to-nearest, ties-to-even, to 53 significant bits (the significand
\* of a double); the bits dropped all lie in the low limb
RoundDouble(n) ==
    LET s == Bits(n) - 53
    IN  IF s <= 0 THEN n
        ELSE LET q    == 2^s
                 r    == n[3] % q
                 odd  == (n[3] \div q) % 2 = 1
                 up   == 2 * r > q \/ (2 * r = q /\ odd)
                 base == n[3] - r
             IN  Normalize(<<n[1], n[2], IF up THEN base + q ELSE base>>)

\* a + b in double arithmetic
DoubleAdd(a, b) ==
    RoundDouble(Normalize(<<a[1] + b[1], a[2] + b[2], a[3] + b[3]>>))

\* a > 1.0 (1.0 is 2^63 = 8 * 2^60)
GreaterThanOne(a) == a[1] > 8 \/ (a[1] = 8 /\ (a[2] > 0 \/ a[3] > 0))

Zero == <<0, 0, 0>>

\* the double nearest 0.0008: 0x1.a36e2eb1c432dp-11 = 7378697629483821 * 2^-63
Delta == <<0, 6871947, 723272493>>

(***************************************************************************)
(* The flight path: THREE.CatmullRomCurve3(pathPoints), closed,            *)
(* curveType 'centripetal' (the constructor's default)                     *)
(***************************************************************************)
pathPoints ==
    << <<-60, 8, -40>>, <<-40, 12, -10>>, <<0, 18, 35>>, <<25, 16, 40>>,
       <<55, 10, 10>>, <<35, 10, -35>>, <<-20, 14, -50>>, <<-60, 8, -40>> >>

closed == TRUE

NumPoints == Len(pathPoints)

distanceToSquared(p, q) ==
    (p[1] - q[1]) * (p[1] - q[1]) + (p[2] - q[2]) * (p[2] - q[2])
        + (p[3] - q[3]) * (p[3] - q[3])

\* Math.pow(dsq, 0.25) in units of 2^-12
Pow025(dsq) == ISqrt(ISqrt(dsq * 2^18) * 2^15)

\* the 0-based waypoint index i of the JavaScript array
Point(i) == pathPoints[(i % NumPoints) + 1]

\* CubicPoly.initNonuniformCatmullRom: the four coefficients, units of 2^-8
NonuniformCatmullRom(x0, x1, x2, x3, dt0, dt1, dt2) ==
    LET a1 == DivRound((x1 - x0) * dt1 * 256, dt0)
        a2 == DivRound((x2 - x0) * dt1 * 256, dt0 + dt1)
        a3 == DivRound((x2 - x1) * dt1 * 256, dt1)
        b1 == DivRound((x2 - x1) * dt1 * 256, dt1)
        b2 == DivRound((x3 - x1) * dt1 * 256, dt1 + dt2)
        b3 == DivRound((x3 - x2) * dt1 * 256, dt2)
        t1 == a1 - a2 + a3
        t2 == b1 - b2 + b3
    IN  << x1 * 256,
           t1,
           (3 * x2 - 3 * x1) * 256 - 2 * t1 - t2,
           (2 * x1 - 2 * x2) * 256 + t1 + t2 >>

\* CubicPoly.calc: c0 + c1 w + c2 w^2 + c3 w^3, w in units of 2^-20,
\* result in units of 2^-20
Calc(c, w) ==
    LET w2 == MulShift(w, w, 20)
        w3 == MulShift(w2, w, 20)
    IN  c[1] * 4096 + MulShift(c[2], w, 8) + MulShift(c[3], w2, 8)
            + MulShift(c[4], w3, 8)

\* CatmullRomCurve3.getPoint(t) for the closed curve: p = l * t, the
\* segment is floor(p) (moved up by l when it is 0) and the weight p - floor(p)
getPoint(t) ==
    LET l      == IF closed THEN NumPoints ELSE NumPoints - 1
        floorP == t[1]
        weight == t[2] \div 1024
        int    == IF floorP > 0 THEN floorP ELSE floorP + l
        p0     == Point(int - 1)
        p1     == Point(int)
        p2     == Point(int + 1)
        p3     == Point(int + 2)
        r0     == Pow025(distanceToSquared(p0, p1))
        r1     == Pow025(distanceToSquared(p1, p2))
        r2     == Pow025(distanceToSquared(p2, p3))
        dt1    == IF r1 = 0 THEN 4096 ELSE r1
        dt0    == IF r0 = 0 THEN dt1 ELSE r0
        dt2    == IF r2 = 0 THEN dt1 ELSE r2
        Coord(i) == Calc(NonuniformCatmullRom(p0[i], p1[i], p2[i], p3[i],
                                              dt0, dt1, dt2), weight)
    IN  <<Coord(1), Coord(2), Coord(3)>>

(***************************************************************************)
(* Trail helpers                                                           *)
(***************************************************************************)
\* 0.5 world units, the admission threshold of the trail
Tau == 2^19

\* d * d for |d| <= Tau as <<hi, lo>>, hi * 2^20 + lo
Square(d) ==
    LET a  == Abs(d)
        dh == a \div 1024
        dl == a % 1024
        lo == 2 * dh * dl * 1024 + dl * dl
    IN  <<dh * dh + lo \div Frac, lo % Frac>>

\* Vector3.distanceTo(a, b) against Tau: 1 when greater, 0 when equal,
\* -1 when smaller.  A coordinate difference above Tau decides at once.
CompareDistance(a, b) ==
    LET dx == a[1] - b[1]
        dy == a[2] - b[2]
        dz == a[3] - b[3]
    IN  IF Abs(dx) > Tau \/ Abs(dy) > Tau \/ Abs(dz) > Tau THEN 1
        ELSE LET sx  == Square(dx)
                 sy  == Square(dy)
                 sz  == Square(dz)
                 lo  == sx[2] + sy[2] + sz[2]
                 hi  == sx[1] + sy[1] + sz[1] + lo \div Frac
                 low == lo % Frac
                 lim == 2^18
             IN  IF hi > lim \/ (hi = lim /\ low > 0) THEN 1
                 ELSE IF hi = lim /\ low = 0 THEN 0
                 ELSE -1

\* previousPosition.distanceTo(position) > 0.5
ExceedsTau(prev, position) == CompareDistance(prev, position) = 1

\* Math.fround: the value a Float32Array element holds after a store, round
\* to nearest, ties to even, to 24 significant bits.  Coordinates stay below
\* 2^8 world units, so at most 4 bits are dropped.
Fround(v) ==
    LET m == Abs(v)
        q == IF m < 2^24 THEN 1
             ELSE IF m < 2^25 THEN 2
             ELSE IF m < 2^26 THEN 4
             ELSE IF m < 2^27 THEN 8
             ELSE 16
        r   == m % q
        odd == (m \div q) % 2 = 1
        up  == 2 * r > q \/ (2 * r = q /\ odd)
        n   == IF up THEN m - r + q ELSE m - r
    IN  IF v < 0 THEN -n ELSE n

\* a buffer patched in place: a fresh zero-filled array of the right length
\* into which only the newest point is written
BuildPositionsNewestOnly(points) ==
    [i \in 1..(3 * Len(points)) |->
        IF i > 3 * (Len(points) - 1)
        THEN Fround(points[Len(points)][((i - 1) % 3) + 1])
        ELSE 0]

\* new Float32Array(trailPoints.length * 3) filled by the forEach
BuildPositions(points) ==
    [i \in 1..(3 * Len(points)) |->
        Fround(points[((i - 1) \div 3) + 1][((i - 1) % 3) + 1])]

(***************************************************************************)
(* Bounds of the model                                                     *)
(***************************************************************************)
\* ticks explored while the airplane is still loading (the first is the
\* synchronous animate() call of the mount effect)
MaxIdleTicks == 3

\* ticks explored with the airplane resolved, full system
MaxFlightTicks == 7

\* ticks explored with the airplane resolved, long run over a whole loop
MaxLoopTicks == 1256

\* invocations of the effect's cleanup function explored
MaxCleanupRuns == 2

\* positions offered to the trail in the trail-only exploration
MaxOffers == 3

\* trail points recorded in the exploration of the unending flight
MaxLiveTrail == 4

(***************************************************************************)
(* State                                                                   *)
(***************************************************************************)
VARIABLES
    t,                \* let t: animation progress, a double
    airplaneRef,      \* airplaneRef.current: "none", "gltf" or "placeholder"
    airplanePosition, \* airplane.position of the mesh airplaneRef holds
    trailPoints,      \* trailPointsRef.current
    positions,        \* trailGeometry's 'position' attribute array
    previousPosition, \* previousPositionRef.current
    scene,            \* the nodes passed to scene.add
    loads,            \* the two loader.load requests: pending, loaded, failed
    window,           \* <<innerWidth, innerHeight>>
    cameraAspect,     \* camera.aspect as a reduced fraction
    rendererSize,     \* the size given to renderer.setSize
    resizeListener,   \* handleResize is registered on window
    containerRef,     \* containerRef.current is non-null
    domAttached,      \* renderer.domElement is a child of the container
    disposed,         \* the objects whose dispose() has been called
    frameRequested,   \* a requestAnimationFrame(animate) callback is pending
    cleanupError,     \* a cleanup invocation threw
    cleanupRuns,      \* invocations of the cleanup function so far
    airplaneRefWrites,\* assignments to airplaneRef.current so far
    admissions,       \* times the admission branch of the trail was taken
    idleTicks,        \* ticks run with airplaneRef.current undefined
    flightTicks,      \* ticks run with the airplane resolved
    renders,          \* calls of renderer.render so far
    lastTick,         \* what the latest tick did
    prevTick          \* what the tick before it did

progVars == <<t, airplaneRef, airplanePosition, trailPoints, positions,
              previousPosition>>

trailVars == <<trailPoints, positions, previousPosition, admissions>>

sceneVars == <<scene, loads, airplaneRefWrites>>

hostVars == <<window, cameraAspect, rendererSize>>

cleanupVars == <<resizeListener, containerRef, domAttached, disposed,
                 cleanupError, cleanupRuns>>

tickVars == <<idleTicks, flightTicks, renders, lastTick, prevTick,
              frameRequested>>

vars == <<t, airplaneRef, airplanePosition, trailPoints, positions,
          previousPosition, scene, loads, window, cameraAspect, rendererSize,
          resizeListener, containerRef, domAttached, disposed,
          frameRequested, cleanupError, cleanupRuns, airplaneRefWrites,
          admissions, idleTicks, flightTicks, renders, lastTick, prevTick>>

Origin == <<0, 0, 0>>

WindowSizes == {<<800, 600>>, <<1024, 640>>}

RECURSIVE Gcd(_, _)
Gcd(a, b) == IF b = 0 THEN a ELSE Gcd(b, a % b)

\* window.innerWidth / window.innerHeight
Aspect(size) ==
    LET g == Gcd(size[1], size[2]) IN <<size[1] \div g, size[2] \div g>>

Roles == {"map", "airplane"}

\* the nodes a role's load callbacks can add to the scene
Meshes(role) == {<<role, "gltf">>, <<role, "placeholder">>}

\* a tick that found no airplane: it only re-arms the frame callback and renders
IdleTick ==
    [kind |-> "idle", position |-> Origin, admitted |-> FALSE,
     steps |-> <<"requestAnimationFrame", "render">>]

NoTick ==
    [kind |-> "none", position |-> Origin, admitted |-> FALSE, steps |-> <<>>]

\* a tick that re-arms the frame callback as its last statement
FlightTickRearmsLast(position, admitted) ==
    [kind |-> "flight", position |-> position, admitted |-> admitted,
     steps |-> <<"advance", "transform", "trail", "render",
                 "requestAnimationFrame">>]

\* a tick that found the airplane: the statements of animate in their order
FlightTick(position, admitted) ==
    [kind |-> "flight", position |-> position, admitted |-> admitted,
     steps |-> <<"requestAnimationFrame", "advance", "transform", "trail",
                 "render">>]

\* The state when the mount effect returns: scene, lights, trail line and
\* controls built, both loads started, animate() called once (a tick with
\* no airplane yet), the resize listener registered.
Init ==
    /\ t = Zero
    /\ airplaneRef = "none"
    /\ airplanePosition = Origin
    /\ trailPoints = <<>>
    /\ positions = <<>>
    /\ previousPosition = Origin
    /\ scene = {<<"light", "ambient">>, <<"light", "directional">>,
               <<"trail", "line">>}
    /\ loads = [r \in Roles |-> "pending"]
    /\ window = <<800, 600>>
    /\ cameraAspect = Aspect(<<800, 600>>)
    /\ rendererSize = <<800, 600>>
    /\ resizeListener = TRUE
    /\ containerRef = TRUE
    /\ domAttached = TRUE
    /\ disposed = {}
    /\ frameRequested = TRUE
    /\ cleanupError = FALSE
    /\ cleanupRuns = 0
    /\ airplaneRefWrites = 0
    /\ admissions = 0
    /\ idleTicks = 1
    /\ flightTicks = 0
    /\ renders = 1
    /\ lastTick = IdleTick
    /\ prevTick = NoTick

(***************************************************************************)
(* Asset loads: GLTFLoader.load calls exactly one of onLoad and onError,   *)
(* once, in a later task                                                   *)
(***************************************************************************)
\* a loader that may still report a failure after it has delivered the asset
NotFailed(role) == loads[role] # "failed"

Pending(role) == loads[role] = "pending"

\* onLoad of india_map.glb
MapLoaded ==
    /\ Pending("map")
    /\ loads' = [loads EXCEPT !["map"] = "loaded"]
    /\ scene' = scene \cup {<<"map", "gltf">>}
    /\ UNCHANGED <<progVars, admissions, airplaneRefWrites, hostVars,
                   cleanupVars, tickVars>>

\* onError of india_map.glb: the placeholder plane
MapFailed ==
    /\ Pending("map")
    /\ loads' = [loads EXCEPT !["map"] = "failed"]
    /\ scene' = scene \cup {<<"map", "placeholder">>}
    /\ UNCHANGED <<progVars, admissions, airplaneRefWrites, hostVars,
                   cleanupVars, tickVars>>

\* onLoad of airplane.glb
AirplaneLoaded ==
    /\ Pending("airplane")
    /\ loads' = [loads EXCEPT !["airplane"] = "loaded"]
    /\ scene' = scene \cup {<<"airplane", "gltf">>}
    /\ airplaneRef' = "gltf"
    /\ airplanePosition' = Origin
    /\ airplaneRefWrites' = airplaneRefWrites + 1
    /\ UNCHANGED <<t, trailVars, hostVars, cleanupVars, tickVars>>

\* onError of airplane.glb without its last line: the cone is added to the
\* scene but never stored in airplaneRef
AirplaneFailedHandleNotStored ==
    /\ Pending("airplane")
    /\ loads' = [loads EXCEPT !["airplane"] = "failed"]
    /\ scene' = scene \cup {<<"airplane", "placeholder">>}
    /\ UNCHANGED <<progVars, admissions, airplaneRefWrites, hostVars,
                   cleanupVars, tickVars>>

\* onError of airplane.glb: the placeholder cone
AirplaneFailed ==
    /\ Pending("airplane")
    /\ loads' = [loads EXCEPT !["airplane"] = "failed"]
    /\ scene' = scene \cup {<<"airplane", "placeholder">>}
    /\ airplaneRef' = "placeholder"
    /\ airplanePosition' = Origin
    /\ airplaneRefWrites' = airplaneRefWrites + 1
    /\ UNCHANGED <<t, trailVars, hostVars, cleanupVars, tickVars>>

\* the guard of line 147 dropped: the block runs on every tick
AlwaysResolved == TRUE

(***************************************************************************)
(* The animation loop                                                      *)
(***************************************************************************)
\* if (airplane && controls && curve): controls and curve are set by the
\* effect before animate() is first called and never cleared
Resolved == airplaneRef # "none"

\* s mod 1 for a double s in [0, 2): exact
ModOne(s) == IF s[1] >= 8 THEN <<s[1] - 8, s[2], s[3]>> ELSE s

\* a wrap that keeps the excess over 1: t = (t + 0.0008) % 1
AdvanceModOne(x) == ModOne(DoubleAdd(x, Delta))

\* no wrap: progress stays at its last value below the end of the path
AdvanceStopsAtEnd(x) ==
    LET s == DoubleAdd(x, Delta) IN IF GreaterThanOne(s) THEN x ELSE s

\* t += 0.0008; if (t > 1) t = 0;
Advance(x) ==
    LET s == DoubleAdd(x, Delta) IN IF GreaterThanOne(s) THEN Zero ELSE s

\* if (previousPosition.distanceTo(position) > 0.5)
Admits(prev, position) == ExceedsTau(prev, position)

\* previousPosition.copy(position) moved out of the if: copied on every tick
CursorAlwaysCopied(prev, position) == position

\* previousPosition.copy(position) left out: the cursor stays where it was
CursorNeverCopied(prev, position) == prev

\* the cursor after the trail block has seen position
NextCursor(prev, position) ==
    IF Admits(prev, position) THEN position ELSE prev

\* a counter of the exploration that stops counting at bound
CountUpTo(n, bound) == IF n < bound THEN n + 1 ELSE n

\* a trail kept as a sliding window: the oldest point is dropped once the
\* trail holds 100 points
DropOldest(points, position) ==
    IF Len(points) >= 100
    THEN Append(Tail(points), position)
    ELSE Append(points, position)

\* trailPoints.push(position.clone())
Extend(points, position) == Append(points, position)

\* the trail block of a tick, lines 164-184
UpdateTrail(position) ==
    IF Admits(previousPosition, position)
    THEN /\ trailPoints' = Extend(trailPoints, position)
         /\ positions' = BuildPositions(trailPoints')
         /\ previousPosition' = NextCursor(previousPosition, position)
         /\ admissions' = admissions + 1
    ELSE /\ previousPosition' = NextCursor(previousPosition, position)
         /\ UNCHANGED <<trailPoints, positions, admissions>>

\* the increment moved out of the guarded block: progress moves on every tick
ProgressUnguarded(resolved, x) == Advance(x)

\* renderer.render moved into the guarded block: no frame while loading
RendersWhenResolved(resolved) == IF resolved THEN 1 ELSE 0

\* controls.update(); renderer.render(scene, camera): after the guarded
\* block, once per call of animate whatever the guard decided
RenderCalls(resolved) == 1

\* the progress after a tick: it moves only inside the guarded block
Progress(resolved, x) == IF resolved THEN Advance(x) ELSE x

\* one call of animate with at most maxFlight resolved ticks explored
Animate(maxFlight) ==
    /\ frameRequested
    /\ frameRequested' = TRUE
    /\ prevTick' = lastTick
    /\ t' = Progress(Resolved, t)
    /\ renders' = renders + RenderCalls(Resolved)
    /\ IF Resolved
       THEN /\ flightTicks < maxFlight
            /\ LET position == getPoint(t') IN
                 /\ airplanePosition' = position
                 /\ UpdateTrail(position)
                 /\ lastTick' =
                      FlightTick(position, Admits(previousPosition, position))
            /\ flightTicks' = flightTicks + 1
            /\ UNCHANGED idleTicks
       ELSE /\ idleTicks < MaxIdleTicks
            /\ idleTicks' = idleTicks + 1
            /\ lastTick' = IdleTick
            /\ UNCHANGED <<airplanePosition, trailVars, flightTicks>>
    /\ UNCHANGED <<airplaneRef, sceneVars, hostVars, cleanupVars>>

Tick == Animate(MaxFlightTicks)

TickLoop == Animate(MaxLoopTicks)

(***************************************************************************)
(* Resize and cleanup                                                      *)
(***************************************************************************)
\* a resize handler that also restarts the flight
ResizeRestartsFlight(size) ==
    /\ size # window
    /\ window' = size
    /\ IF resizeListener
       THEN cameraAspect' = Aspect(size) /\ rendererSize' = size
       ELSE UNCHANGED <<cameraAspect, rendererSize>>
    /\ t' = Zero
    /\ UNCHANGED <<airplaneRef, airplanePosition, trailVars, sceneVars,
                   cleanupVars, tickVars>>

\* the window is resized to size; handleResize runs if it is registered
Resize(size) ==
    /\ size # window
    /\ window' = size
    /\ IF resizeListener
       THEN cameraAspect' = Aspect(size) /\ rendererSize' = size
       ELSE UNCHANGED <<cameraAspect, rendererSize>>
    /\ UNCHANGED <<progVars, admissions, sceneVars, cleanupVars, tickVars>>

\* The function the effect returns.  detach: the host cleared
\* containerRef.current before calling it (an unmount), or left it set.
\* removeChild of a node that is not a child throws.
Cleanup(detach) ==
    /\ cleanupRuns < MaxCleanupRuns
    /\ cleanupRuns' = cleanupRuns + 1
    /\ containerRef' = (containerRef /\ ~detach)
    /\ resizeListener' = FALSE
    /\ disposed' = disposed \cup {"renderer", "controls"}
    /\ IF containerRef'
       THEN /\ domAttached' = FALSE
            /\ cleanupError' = (cleanupError \/ ~domAttached)
       ELSE UNCHANGED <<domAttached, cleanupError>>
    /\ UNCHANGED <<progVars, admissions, sceneVars, hostVars, tickVars>>

Next ==
    \/ MapLoaded
    \/ MapFailed
    \/ AirplaneLoaded
    \/ AirplaneFailed
    \/ Tick
    \/ \E size \in WindowSizes : Resize(size)
    \/ \E detach \in BOOLEAN : Cleanup(detach)

Spec == Init /\ [][Next]_vars

\* The flight over a whole loop, from the states in which the airplane has
\* just resolved (by load or by placeholder) right after the mount effect.
InitLoop ==
    \E mesh \in {"gltf", "placeholder"} :
        /\ t = Zero
        /\ airplaneRef = mesh
        /\ airplanePosition = Origin
        /\ trailPoints = <<>>
        /\ positions = <<>>
        /\ previousPosition = Origin
        /\ scene = {<<"light", "ambient">>, <<"light", "directional">>,
                    <<"trail", "line">>, <<"airplane", mesh>>}
        /\ loads = [r \in Roles |->
                      IF r = "map" THEN "pending"
                      ELSE IF mesh = "gltf" THEN "loaded" ELSE "failed"]
        /\ window = <<800, 600>>
        /\ cameraAspect = Aspect(<<800, 600>>)
        /\ rendererSize = <<800, 600>>
        /\ resizeListener = TRUE
        /\ containerRef = TRUE
        /\ domAttached = TRUE
        /\ disposed = {}
        /\ frameRequested = TRUE
        /\ cleanupError = FALSE
        /\ cleanupRuns = 0
        /\ airplaneRefWrites = 1
        /\ admissions = 0
        /\ idleTicks = 1
        /\ flightTicks = 0
        /\ renders = 1
        /\ lastTick = IdleTick
        /\ prevTick = NoTick

NextLoop == TickLoop

SpecLoop == InitLoop /\ [][NextLoop]_vars

\* The flight with no bound on the number of ticks.  The code keeps no tick
\* count, and progress and the cursor return to earlier values, so the
\* flight is a cycle of states once the growing parts are cut off: the tick
\* counters stop at MaxFlightTicks, and the trail and its buffer record the
\* first MaxLiveTrail admissions only (the cursor, which decides admission,
\* is kept exact).
TickLive ==
    /\ frameRequested
    /\ Resolved
    /\ frameRequested' = TRUE
    /\ prevTick' = lastTick
    /\ t' = Progress(Resolved, t)
    /\ renders' = CountUpTo(renders, MaxFlightTicks + 1)
    /\ flightTicks' = CountUpTo(flightTicks, MaxFlightTicks)
    /\ LET position == getPoint(t') IN
         /\ airplanePosition' = position
         /\ previousPosition' = NextCursor(previousPosition, position)
         /\ lastTick' = FlightTick(position, Admits(previousPosition, position))
         /\ IF Admits(previousPosition, position)
               /\ Len(trailPoints) < MaxLiveTrail
            THEN /\ trailPoints' = Extend(trailPoints, position)
                 /\ positions' = BuildPositions(trailPoints')
                 /\ admissions' = admissions + 1
            ELSE UNCHANGED <<trailPoints, positions, admissions>>
    /\ UNCHANGED <<airplaneRef, sceneVars, hostVars, cleanupVars, idleTicks>>

NextLive == TickLive

\* The host runs a frame callback that stays pending: weak fairness of the
\* tick.  Every tick with the airplane resolved changes t and no other step
\* does, so the condition is stated on the progress update of the tick.
FrameDue ==
    /\ frameRequested
    /\ Resolved
    /\ t' = Progress(Resolved, t)

SpecLive == InitLoop /\ [][NextLive]_vars /\ WF_t(FrameDue)

(***************************************************************************)
(* The trail block on its own: positions offered one after another, as the *)
(* block of lines 164-184 sees them, drawn from points 0.25 apart on a     *)
(* line, so that successive offers lie below, at and above the threshold   *)
(***************************************************************************)
Candidates == {<<k * 2^18, 0, 0>> : k \in 1..5}

MaybeAppend(position) ==
    /\ flightTicks < MaxOffers
    /\ flightTicks' = flightTicks + 1
    /\ prevTick' = lastTick
    /\ lastTick' = FlightTick(position, Admits(previousPosition, position))
    /\ UpdateTrail(position)
    /\ UNCHANGED <<t, airplaneRef, airplanePosition, sceneVars, hostVars,
                   cleanupVars, idleTicks, renders, frameRequested>>

NextTrail == \E position \in Candidates : MaybeAppend(position)

SpecTrail == Init /\ [][NextTrail]_vars

(***************************************************************************)
(* Properties                                                              *)
(***************************************************************************)
LessThanOne(a) == a[1] < 8

Last(seq) == seq[Len(seq)]

\* the step is a tick with the airplane resolved
FlightStep == flightTicks' = flightTicks + 1

\* the step is a tick
TickStep == idleTicks' + flightTicks' = idleTicks + flightTicks + 1

\* C1 as stated: every tick that advances progress leaves it at
\* (t + D) mod 1, a value in [0, 1).
C1_ProgressIsSumModOne ==
    [][FlightStep =>
          /\ t' = ModOne(DoubleAdd(t, Delta))
          /\ LessThanOne(t')]_vars

\* C1 amended: every tick that advances progress leaves it at t + D when
\* that double sum is at most 1 and at exactly 0 otherwise (the excess over
\* 1 is dropped, not kept as a remainder); the sum never equals 1, so the
\* progress used to sample the path stays in [0, 1).
C1_ProgressWrapsToZero ==
    [][FlightStep =>
          LET sum == DoubleAdd(t, Delta) IN
            /\ t' = IF GreaterThanOne(sum) THEN Zero ELSE sum
            /\ LessThanOne(t')]_vars

\* C1 witness: the 1250th tick of a loop has wrapped progress back to 0.
C1_Wrapped == flightTicks >= 1250 /\ t = Zero /\ lastTick.kind = "flight"

\* C2: on a tick with the airplane resolved the sampled position is appended
\* to the trail iff its distance from the cursor exceeds 0.5; on admission
\* the cursor becomes that position, otherwise it is unchanged; so whenever
\* the trail is non-empty the cursor is the trail's last point.
C2_TrailAdmissionRule ==
    [][/\ FlightStep =>
            LET position == lastTick'.position IN
              /\ position = getPoint(t')
              /\ lastTick'.admitted
                   = (CompareDistance(previousPosition, position) = 1)
              /\ IF CompareDistance(previousPosition, position) = 1
                 THEN /\ trailPoints' = Append(trailPoints, position)
                      /\ previousPosition' = position
                 ELSE /\ trailPoints' = trailPoints
                      /\ previousPosition' = previousPosition
       /\ trailPoints' # <<>> => previousPosition' = Last(trailPoints')]_vars

\* C2 witness: two points admitted, then a tick whose position was refused.
C2_AdmittedThenRefused ==
    /\ admissions >= 2
    /\ lastTick.kind = "flight"
    /\ ~lastTick.admitted
    /\ prevTick.kind = "flight"
    /\ prevTick.admitted
    /\ previousPosition = prevTick.position

\* C3: of two successive positions offered to the trail, two closer than
\* 0.5 are never both admitted, and if they are farther apart than 0.5 and
\* the first was admitted, the second is admitted too.
C3_AdmissionMonotonicInDistance ==
    (prevTick.kind = "flight" /\ lastTick.kind = "flight") =>
        LET d == CompareDistance(prevTick.position, lastTick.position) IN
          /\ d = -1 => ~(prevTick.admitted /\ lastTick.admitted)
          /\ (d = 1 /\ prevTick.admitted) => lastTick.admitted

\* C3 witness: two successive offers farther apart than 0.5, both admitted,
\* after an earlier offer that lay within 0.5 of its predecessor.
C3_FarApartBothAdmitted ==
    /\ prevTick.kind = "flight"
    /\ lastTick.kind = "flight"
    /\ CompareDistance(prevTick.position, lastTick.position) = 1
    /\ prevTick.admitted
    /\ lastTick.admitted
    /\ flightTicks > admissions

\* C4 as stated: after k >= 1 admissions the trail has k points and the
\* buffer holds 3k numbers equal to the points' x, y, z in admission order.
C4_BufferEqualsTrail ==
    admissions >= 1 =>
        /\ Len(trailPoints) = admissions
        /\ Len(positions) = 3 * admissions
        /\ \A i \in 1..admissions : \A j \in 1..3 :
              positions[3 * (i - 1) + j] = trailPoints[i][j]

\* C4 amended: after k >= 1 admissions the trail has k points and the
\* buffer holds 3k numbers, the single-precision roundings of the points'
\* x, y, z in admission order (the buffer is a Float32Array, the points are
\* doubles); before the first admission there is no buffer.
C4_BufferIsFloat32OfTrail ==
    /\ admissions = 0 => (trailPoints = <<>> /\ positions = <<>>)
    /\ admissions >= 1 =>
        /\ Len(trailPoints) = admissions
        /\ Len(positions) = 3 * admissions
        /\ \A i \in 1..admissions : \A j \in 1..3 :
              positions[3 * (i - 1) + j] = Fround(trailPoints[i][j])

\* C4 witness: a second admission has rebuilt the buffer, and single
\* precision has changed a coordinate of the first point.
C4_RebuiltTwice ==
    /\ admissions >= 2
    /\ Len(positions) = 6
    /\ positions[1] # trailPoints[1][1]

\* C5: for each asset role at most one mesh, the loaded one or the
\* placeholder, is ever in the scene, it is there exactly when the load has
\* ended, and the airplane handle is written at most once.
C5_OneOutcomePerRole ==
    /\ \A role \in Roles :
          /\ Cardinality(scene \cap Meshes(role)) <= 1
          /\ loads[role] = "pending" => scene \cap Meshes(role) = {}
          /\ loads[role] = "loaded" => <<role, "gltf">> \in scene
          /\ loads[role] = "failed" => <<role, "placeholder">> \in scene
    /\ airplaneRefWrites <= 1
    /\ airplaneRefWrites = 1 <=> Resolved
    /\ Resolved => <<"airplane", airplaneRef>> \in scene

\* C5 witness: both loads have ended, one by success and one by fallback,
\* and ticks have read the handle since.
C5_BothResolved ==
    /\ loads["map"] = "failed"
    /\ loads["airplane"] = "loaded"
    /\ airplaneRefWrites = 1
    /\ flightTicks >= 2

\* the nodes the effect and its load callbacks add to the scene for the
\* flight: the trail line and the two roles' meshes
OwnedNodes == {<<"trail", "line">>} \cup Meshes("map") \cup Meshes("airplane")

\* C6: after the cleanup has run no tick executes any more: no progress
\* advance, no trail admission and no render happens.
C6_NoTickAfterTeardown ==
    [][cleanupRuns >= 1 =>
          /\ ~TickStep
          /\ UNCHANGED <<t, trailPoints, positions, previousPosition,
                         lastTick>>]_vars

\* C7: a load callback that runs after the cleanup inserts no mesh into the
\* scene and does not write the airplane handle.
C7_LateLoadIsNoOp ==
    [][cleanupRuns >= 1 =>
          UNCHANGED <<scene, airplaneRef, airplaneRefWrites>>]_vars

\* C8: once the cleanup has run the trail geometry is disposed, every node
\* added to the scene for the flight is detached, and the airplane handle
\* and the trail are cleared.
C8_TeardownReleasesEverything ==
    cleanupRuns >= 1 =>
        /\ "trailGeometry" \in disposed
        /\ scene \cap OwnedNodes = {}
        /\ airplaneRef = "none"
        /\ trailPoints = <<>>

\* C9: running the cleanup again after it has run changes nothing and
\* throws nothing (it does not remove the render surface a second time).
C9_CleanupIdempotent ==
    [][(cleanupRuns >= 1 /\ cleanupRuns' = cleanupRuns + 1) =>
          /\ ~cleanupError'
          /\ UNCHANGED <<resizeListener, domAttached, disposed>>]_vars

\* C10 as stated: progress advances by the increment on every tick, also on
\* the ticks that run while the airplane is not resolved.
C10_ProgressAdvancesOnEveryTick ==
    [][TickStep => t' = Advance(t)]_vars

\* C10 amended: progress advances by the increment on every tick that finds
\* the airplane resolved; a tick that runs while it is not resolved leaves
\* progress unchanged, so progress is still 0 when the airplane resolves.
C10_ProgressAdvancesOnlyWhenResolved ==
    [][/\ TickStep =>
            t' = IF airplaneRef = "none" THEN t
                 ELSE LET sum == DoubleAdd(t, Delta)
                      IN  IF GreaterThanOne(sum) THEN Zero ELSE sum
       /\ airplaneRef' = "none" => t' = Zero]_vars

\* C10 witness: ticks ran before the airplane resolved and after, and
\* progress is as many increments from 0 as there were ticks after.
C10_IdleThenFlight ==
    /\ idleTicks = MaxIdleTicks
    /\ flightTicks = 2
    /\ t = Advance(Advance(Zero))

\* C11: every tick calls render exactly once, whether the airplane and the
\* map are unresolved, loaded or replaced by their placeholders: the number
\* of render calls is the number of ticks, and each tick's last step is the
\* render.
C11_OneRenderPerTick ==
    /\ renders = idleTicks + flightTicks
    /\ lastTick.kind # "none" => Last(lastTick.steps) = "render"

\* C11 witness: ticks have rendered before the airplane resolved and after
\* it resolved by load, with the map replaced by its placeholder.
C11_RenderedInEveryState ==
    /\ idleTicks >= 2
    /\ flightTicks >= 2
    /\ renders = idleTicks + flightTicks
    /\ loads["map"] = "failed"
    /\ airplaneRef = "gltf"

\* C12: once the airplane load has failed, the placeholder is in the scene
\* and is the airplane handle, the loop goes on (a frame callback stays
\* pending and the failure leaves no error behind), and every tick from
\* then on moves the airplane to the path position at the current progress.
C12_PlaceholderFlies ==
    [][loads'["airplane"] = "failed" =>
          /\ <<"airplane", "placeholder">> \in scene'
          /\ <<"airplane", "gltf">> \notin scene'
          /\ airplaneRef' = "placeholder"
          /\ frameRequested'
          /\ TickStep =>
                /\ FlightStep
                /\ lastTick'.kind = "flight"
                /\ airplanePosition' = getPoint(t')
                /\ t' = Advance(t)]_vars

\* C12 witness: the load failed, ticks have run since, and the placeholder
\* sits on the path at the current progress, away from where it was built.
C12_PlaceholderOnPath ==
    /\ loads["airplane"] = "failed"
    /\ airplaneRef = "placeholder"
    /\ flightTicks >= 3
    /\ cleanupRuns = 0
    /\ airplanePosition = getPoint(t)
    /\ airplanePosition # Origin

\* C13: the trail is append-only.  Every step leaves it unchanged or adds
\* exactly one point at its end and keeps the points before it; it is never
\* shortened or cleared, also on the tick where progress wraps to 0, so it
\* holds as many points as were ever admitted and goes on growing in the
\* next loop.
C13_TrailAppendOnly ==
    [][/\ \/ trailPoints' = trailPoints
          \/ /\ Len(trailPoints') = Len(trailPoints) + 1
             /\ SubSeq(trailPoints', 1, Len(trailPoints)) = trailPoints
       /\ Len(trailPoints') = admissions'
       /\ t' = Zero => Len(trailPoints') >= Len(trailPoints)]_vars

\* C13 witness: progress has wrapped and a tick of the second loop has just
\* added a point to the trail that the first loop left behind.
C13_GrewAfterWrap ==
    /\ flightTicks > 1250
    /\ lastTick.kind = "flight"
    /\ lastTick.admitted
    /\ Len(trailPoints) > 400
    /\ Last(trailPoints) = lastTick.position

\* C14: a tick that finds the airplane unresolved skips the transform update
\* and the trail block: it does not touch the airplane (no "transform" or
\* "trail" step, no position written), and it leaves the trail points, the
\* trail geometry buffer and the cursor as they were.
C14_UnresolvedTickSkipsTrail ==
    [][TickStep /\ airplaneRef = "none" =>
          /\ UNCHANGED <<trailPoints, positions, previousPosition>>
          /\ UNCHANGED <<airplanePosition, admissions, flightTicks>>
          /\ lastTick'.kind = "idle"
          /\ \A i \in 1..Len(lastTick'.steps) :
                lastTick'.steps[i] \notin {"advance", "transform", "trail"}]_vars

\* C14 witness: ticks have run while the airplane load was still pending,
\* in a scene whose map has already arrived; the trail is still empty.
C14_TickedWhileUnresolved ==
    /\ airplaneRef = "none"
    /\ loads["airplane"] = "pending"
    /\ loads["map"] = "loaded"
    /\ idleTicks >= 3
    /\ lastTick.kind = "idle" /\ prevTick.kind = "idle"
    /\ trailPoints = <<>>
    /\ positions = <<>>

\* C15: only ticks change the animation state.  A window resize, an outcome
\* of the map load and an outcome of the airplane load (and any other step
\* that is not a tick) leave progress t, the trail points and the cursor
\* unchanged.
C15_OnlyTicksAnimate ==
    [][(window' # window \/ loads' # loads \/ ~TickStep) =>
          UNCHANGED <<t, trailPoints, previousPosition>>]_vars

\* C15 witness: in mid-flight, with a trail already drawn, the window has
\* been resized and the map load has come back after the airplane's.
C15_ResizedAndLoadedInFlight ==
    /\ window # <<800, 600>>
    /\ rendererSize = window
    /\ loads["map"] # "pending"
    /\ prevTick.kind = "flight"
    /\ <<"map", IF loads["map"] = "loaded" THEN "gltf" ELSE "placeholder">>
          \in scene
    /\ flightTicks >= 2
    /\ flightTicks < MaxFlightTicks
    /\ t # Zero
    /\ trailPoints # <<>>

\* C16 as stated: the next frame callback is registered only after the tick
\* has finished its progress update, trail update and render, that is, the
\* registration is the last statement of every tick.
C16_NextFrameRegisteredLast ==
    lastTick.kind # "none" =>
        Last(lastTick.steps) = "requestAnimationFrame"

\* C16, amended: ticks never overlap (a step runs at most one tick, start
\* to end), but the next frame callback is registered as the FIRST statement
\* of a tick, before its progress update, trail update and render; the
\* callback is pending for the whole tick and runs only after the tick has
\* returned.
C16_NextFrameRegisteredFirst ==
    /\ [](lastTick.kind # "none" =>
            /\ lastTick.steps[1] = "requestAnimationFrame"
            /\ \A i \in 2..Len(lastTick.steps) :
                  lastTick.steps[i]
                     \in {"advance", "transform", "trail", "render"}
            /\ Last(lastTick.steps) = "render"
            /\ frameRequested)
    /\ [][idleTicks' + flightTicks' \in
             {idleTicks + flightTicks, idleTicks + flightTicks + 1}]_vars

\* C16 witness: two flight ticks in a row, each of which registered the next
\* callback before it advanced progress, moved the airplane and rendered.
C16_TwoFlightTicksInARow ==
    /\ lastTick.kind = "flight" /\ prevTick.kind = "flight"
    /\ lastTick.steps[1] = "requestAnimationFrame"
    /\ lastTick.steps[2] = "advance"
    /\ Last(lastTick.steps) = "render"
    /\ frameRequested
    /\ flightTicks >= 2

\* C17: the loop has no terminal state.  With the airplane resolved and the
\* frame callback run whenever it is pending, a callback is pending in every
\* state, every step is a tick that moves progress, progress returns to 0
\* infinitely often and leaves it again, and the airplane keeps moving.
C17_FlightNeverEnds ==
    /\ [](frameRequested /\ Resolved /\ cleanupRuns = 0)
    /\ [][t' # t /\ lastTick'.kind = "flight"]_vars
    /\ []<>(t = Zero /\ lastTick.kind = "flight")
    /\ []<>(t # Zero)
    /\ []<><<airplanePosition' # airplanePosition>>_vars

\* C17 witness: progress is back at 0 after a whole loop, with the cursor
\* carried over from the loop before (it is no longer the initial one and
\* the recorded trail is full).
C17_BackAtStart ==
    /\ t = Zero
    /\ lastTick.kind = "flight"
    /\ prevTick.kind = "flight"
    /\ Len(trailPoints) = MaxLiveTrail
    /\ previousPosition # Origin
    /\ frameRequested

\* C18: the waypoint list has no consecutive duplicates.  The path is closed,
\* so the last waypoint is followed by the first: every waypoint differs
\* from the one after it around the loop, and the segment the airplane is
\* on never has length zero.
C18_NoConsecutiveDuplicates ==
    /\ closed
    /\ \A i \in 0..(NumPoints - 1) : Point(i) # Point(i + 1)
    /\ lastTick.kind = "flight" =>
          distanceToSquared(Point(t[1]), Point(t[1] + 1)) > 0

====
